---- MODULE Spec2Model ----
(***************************************************************************)
(* Model of the analytics endpoint of the Business Dashboard API           *)
(* (src/main.py, analytics_overview) together with the two order handlers  *)
(* that change the "order" collection it reads (update_order,              *)
(* delete_order).                                                          *)
(*                                                                         *)
(* Money is counted in mills (1/1000 of a currency unit), so that the      *)
(* 2-decimal rounding of the code, round(x, 2), is a real conversion: it   *)
(* rounds to the nearest multiple of 10 mills, halves to even.  Dates are  *)
(* (ordinal day, time of day); the strings exchanged with the caller and   *)
(* produced by $dateToString are tuples of one-character strings.          *)
(***************************************************************************)
EXTENDS Integers, Sequences, FiniteSets, TLC

VARIABLES db_available, store, db_order, call, rows, branch, resp

vars == <<db_available, store, db_order, call, rows, branch, resp>>

(***************************************************************************)
(* Bounds of the model.                                                    *)
(***************************************************************************)
MaxOrders == 2
TopMaxItems == 6

(***************************************************************************)
(* Optional values: None is the empty tuple, Some(x) the one-element one.  *)
(***************************************************************************)
None == <<>>
Some(x) == <<x>>
IsNone(o) == Len(o) = 0
Val(o) == o[1]

(***************************************************************************)
(* Generic helpers on sequences.                                           *)
(***************************************************************************)
RECURSIVE SumSeq(_)
SumSeq(s) == IF Len(s) = 0 THEN 0 ELSE Head(s) + SumSeq(Tail(s))

RECURSIVE Orderings(_)
Orderings(S) ==
    IF S = {} THEN {<<>>}
    ELSE UNION {{<<x>> \o t : t \in Orderings(S \ {x})} : x \in S}

Range(s) == {s[i] : i \in 1..Len(s)}

SeqsUpTo(S, n) == UNION {[1..k -> S] : k \in 0..n}

RECURSIVE Enumerate(_)
Enumerate(S) ==
    IF S = {} THEN <<>>
    ELSE LET x == CHOOSE y \in S : TRUE IN <<x>> \o Enumerate(S \ {x})

\* The multisets of at most n elements of S, each as one sequence.
Multisets(S, n) ==
    LET e == Enumerate(S)
    IN {[k \in 1..Len(f) |-> e[f[k]]] :
          f \in {g \in SeqsUpTo(1..Len(e), n) : \A k \in 1..(Len(g) - 1) : g[k] <= g[k + 1]}}

(***************************************************************************)
(* Dates.  The calendar of the model is a run of consecutive days that     *)
(* crosses a month end: day 1 is 2025-09-30, day 2 is 2025-10-01, ...      *)
(***************************************************************************)
CalendarDay(n) ==
    IF n <= 1 THEN [y |-> 2025, m |-> 9, d |-> 29 + n]
    ELSE [y |-> 2025, m |-> 10, d |-> n - 1]

\* The inverse of CalendarDay on the months the calendar covers.
DayOrdinal(c) == IF c.m = 9 THEN c.d - 29 ELSE c.d + 1

Digit(k) == CASE k = 0 -> "0" [] k = 1 -> "1" [] k = 2 -> "2" [] k = 3 -> "3"
              [] k = 4 -> "4" [] k = 5 -> "5" [] k = 6 -> "6" [] k = 7 -> "7"
              [] k = 8 -> "8" [] k = 9 -> "9"

\* ASCII order of the characters that occur in date strings.
CharCode(c) == CASE c = "-" -> 45 [] c = "/" -> 47 [] c = "0" -> 48 [] c = "1" -> 49
                 [] c = "2" -> 50 [] c = "3" -> 51 [] c = "4" -> 52 [] c = "5" -> 53
                 [] c = "6" -> 54 [] c = "7" -> 55 [] c = "8" -> 56 [] c = "9" -> 57

IsDigit(c) == CharCode(c) >= 48

DigitVal(c) == CharCode(c) - 48

Pad2(k) == <<Digit(k \div 10), Digit(k % 10)>>

Pad4(k) == <<Digit(k \div 1000), Digit((k \div 100) % 10), Digit((k \div 10) % 10), Digit(k % 10)>>

\* The text "YYYY-MM-DD" of a calendar date.
IsoDate(c) == Pad4(c.y) \o <<"-">> \o Pad2(c.m) \o <<"-">> \o Pad2(c.d)

\* $dateToString with format "%Y-%m-%d" applied to a stored order_date.
dateToString(dt) == IsoDate(CalendarDay(dt.day))

\* Lexicographic order of two strings, as Python compares str.
RECURSIVE StrLess(_, _)
StrLess(a, b) ==
    IF Len(b) = 0 THEN FALSE
    ELSE IF Len(a) = 0 THEN TRUE
    ELSE IF CharCode(Head(a)) # CharCode(Head(b)) THEN CharCode(Head(a)) < CharCode(Head(b))
    ELSE StrLess(Tail(a), Tail(b))

DaysInMonth(m) == IF m = 2 THEN 28 ELSE IF m \in {4, 6, 9, 11} THEN 30 ELSE 31

\* datetime.fromisoformat on a date-only string: None when it raises
\* ValueError, else the datetime at midnight of that day.
fromisoformat(s) ==
    IF /\ Len(s) = 10
       /\ s[5] = "-" /\ s[8] = "-"
       /\ \A i \in {1, 2, 3, 4, 6, 7, 9, 10} : IsDigit(s[i])
    THEN LET y == 1000 * DigitVal(s[1]) + 100 * DigitVal(s[2]) + 10 * DigitVal(s[3]) + DigitVal(s[4])
             m == 10 * DigitVal(s[6]) + DigitVal(s[7])
             d == 10 * DigitVal(s[9]) + DigitVal(s[10])
         IN IF y >= 1 /\ m \in 1..12 /\ d \in 1..DaysInMonth(m)
            THEN Some([day |-> DayOrdinal([y |-> y, m |-> m, d |-> d]), tod |-> 0])
            ELSE None
    ELSE None

\* Comparison of two datetimes.
DtLeq(a, b) == a.day < b.day \/ (a.day = b.day /\ a.tod <= b.tod)

(***************************************************************************)
(* Rounding.  round(x, 2): to the nearest multiple of 10 mills, a half to  *)
(* the even cent.  RoundDiv(t, n) is round(t / n, 2).                      *)
(***************************************************************************)
RoundDiv(t, n) ==
    LET q == t \div (10 * n)
        r == t % (10 * n)
    IN IF 2 * r < 10 * n THEN 10 * q
       ELSE IF 2 * r > 10 * n THEN 10 * (q + 1)
       ELSE IF q % 2 = 0 THEN 10 * q ELSE 10 * (q + 1)

round2(v) == RoundDiv(v, 1)

(***************************************************************************)
(* Documents of the "order" collection.  An item's category is a string,   *)
(* null, or missing (the OrderItem schema has no such field).              *)
(***************************************************************************)
Missing == [tag |-> "missing", s |-> ""]
Null == [tag |-> "null", s |-> ""]
Str(s) == [tag |-> "str", s |-> s]

\* pydantic validation of one order item: quantity and price are kept, a
\* category sent along is not a field of OrderItem and is dropped.
OrderItem(i) == [quantity |-> i.quantity, price |-> i.price, category |-> Missing]

\* Order(...).model_dump(), as far as the aggregation reads it.
Order(p) == [order_date |-> p.order_date,
             items |-> [k \in 1..Len(p.items) |-> OrderItem(p.items[k])]]

(***************************************************************************)
(* The aggregation pipeline of analytics_overview.                         *)
(***************************************************************************)
\* The filter document built from the request; None when a date is malformed
\* (fromisoformat raises).
BuildFilter(start_date, end_date, category) ==
    LET hasStart == ~IsNone(start_date) /\ Val(start_date) # <<>>
        hasEnd == ~IsNone(end_date) /\ Val(end_date) # <<>>
        gte == IF hasStart THEN fromisoformat(Val(start_date)) ELSE None
        lte == IF hasEnd THEN fromisoformat(Val(end_date)) ELSE None
    IN IF (hasStart /\ IsNone(gte)) \/ (hasEnd /\ IsNone(lte)) THEN None
       ELSE Some([gte |-> gte, lte |-> lte,
                  category |-> IF ~IsNone(category) /\ Val(category) # "" THEN category ELSE None])

\* Match without the "items.category" condition.
MatchDatesOnly(doc, filt) ==
    /\ IsNone(filt.gte) \/ DtLeq(Val(filt.gte), doc.order_date)
    /\ IsNone(filt.lte) \/ DtLeq(doc.order_date, Val(filt.lte))

\* {"$match": filt}: the range on order_date, and "items.category" matching a
\* document when some element of its items array has that category.
Match(doc, filt) ==
    /\ IsNone(filt.gte) \/ DtLeq(Val(filt.gte), doc.order_date)
    /\ IsNone(filt.lte) \/ DtLeq(doc.order_date, Val(filt.lte))
    /\ IsNone(filt.category) \/
         \E k \in 1..Len(doc.items) : doc.items[k].category = Str(Val(filt.category))

\* {"$unwind": "$items"} then $addFields line_total: one document per element
\* of items; a document with an empty items array yields none.  day is the
\* $dateToString of the $group key, the same for every element of a document.
Unwind(docs) ==
    UNION {LET day == dateToString(d.order_date)
           IN {[_id |-> d._id, k |-> k, day |-> day, category |-> d.items[k].category,
                line_total |-> d.items[k].quantity * d.items[k].price] :
                  k \in 1..Len(d.items)} : d \in docs}

RECURSIVE SumSet(_)
SumSet(S) ==
    IF S = {} THEN 0
    ELSE LET x == CHOOSE y \in S : TRUE IN x.line_total + SumSet(S \ {x})

GroupKey(u) == [day |-> u.day, category |-> u.category]

\* $group by (day, category): sales is the $sum of line_total, orders the
\* $addToSet of _id.
Group(unwound) ==
    {[_id |-> key,
      sales |-> SumSet({u \in unwound : GroupKey(u) = key}),
      orders |-> {u._id : u \in {v \in unwound : GroupKey(v) = key}}] :
        key \in {GroupKey(u) : u \in unwound}}

Pipeline(docs, filt) == Group(Unwind({d \in docs : Match(d, filt)}))

\* $group does not order its output.  The groups whose key db_order lists
\* come first, in that order; the others follow in any order.
RECURSIVE Pinned(_, _)
Pinned(groups, order) ==
    IF Len(order) = 0 THEN <<>>
    ELSE LET g == {x \in groups : x._id = Head(order)}
         IN (IF g = {} THEN <<>> ELSE <<CHOOSE x \in g : TRUE>>) \o Pinned(groups, Tail(order))

Emissions(groups, order) ==
    LET first == Pinned(groups, order)
    IN {first \o t : t \in Orderings(groups \ Range(first))}

(***************************************************************************)
(* The in-memory summary computed from the rows.  A Python dict is the     *)
(* sequence of its (key, value) pairs in insertion order.                  *)
(***************************************************************************)
\* A default applied to a missing or null category only.
CategoryNameIfNone(c) == IF c.tag = "str" THEN c.s ELSE "Unknown"

\* r["_id"].get("category") or "Unknown"
CategoryName(c) == IF c.tag = "str" /\ c.s # "" THEN c.s ELSE "Unknown"

HasKey(m, key) == \E i \in 1..Len(m) : m[i].key = key

\* m[key] = m.get(key, 0) + v
Accumulate(m, key, v) ==
    IF HasKey(m, key)
    THEN [i \in 1..Len(m) |-> IF m[i].key = key THEN [key |-> key, value |-> m[i].value + v] ELSE m[i]]
    ELSE Append(m, [key |-> key, value |-> v])

RECURSIVE cat_map(_)
cat_map(rs) ==
    IF Len(rs) = 0 THEN <<>>
    ELSE LET r == rs[Len(rs)]
         IN Accumulate(cat_map(SubSeq(rs, 1, Len(rs) - 1)), CategoryName(r._id.category), r.sales)

RECURSIVE trend_map(_)
trend_map(rs) ==
    IF Len(rs) = 0 THEN <<>>
    ELSE LET r == rs[Len(rs)]
         IN Accumulate(trend_map(SubSeq(rs, 1, Len(rs) - 1)), r._id.day, r.sales)

\* Insertion of x into a sequence sorted by descending sales, after the
\* entries that are not smaller: equal entries keep their order.
RECURSIVE InsertDesc(_, _)
InsertDesc(sorted, x) ==
    IF Len(sorted) = 0 THEN <<x>>
    ELSE IF Head(sorted).sales >= x.sales THEN <<Head(sorted)>> \o InsertDesc(Tail(sorted), x)
    ELSE <<x>> \o sorted

\* A descending sort that puts an entry before the entries equal to it.
RECURSIVE InsertDescBeforeEqual(_, _)
InsertDescBeforeEqual(sorted, x) ==
    IF Len(sorted) = 0 THEN <<x>>
    ELSE IF Head(sorted).sales > x.sales
         THEN <<Head(sorted)>> \o InsertDescBeforeEqual(Tail(sorted), x)
    ELSE <<x>> \o sorted

RECURSIVE SortedBySalesDescUnstable(_)
SortedBySalesDescUnstable(entries) ==
    IF Len(entries) = 0 THEN <<>>
    ELSE InsertDescBeforeEqual(SortedBySalesDescUnstable(SubSeq(entries, 1, Len(entries) - 1)),
                               entries[Len(entries)])

\* sorted(entries, key=lambda x: x["sales"], reverse=True): stable.
RECURSIVE SortedBySalesDesc(_)
SortedBySalesDesc(entries) ==
    IF Len(entries) = 0 THEN <<>>
    ELSE InsertDesc(SortedBySalesDesc(SubSeq(entries, 1, Len(entries) - 1)), entries[Len(entries)])

RECURSIVE InsertByKey(_, _)
InsertByKey(sorted, x) ==
    IF Len(sorted) = 0 THEN <<x>>
    ELSE IF StrLess(x.key, Head(sorted).key) THEN <<x>> \o sorted
    ELSE <<Head(sorted)>> \o InsertByKey(Tail(sorted), x)

\* trend_map.items() left in insertion order.
ItemsUnsorted(m) == m

\* sorted(trend_map.items()): ascending by the day string (the keys differ).
RECURSIVE SortedItems(_)
SortedItems(m) ==
    IF Len(m) = 0 THEN <<>>
    ELSE InsertByKey(SortedItems(SubSeq(m, 1, Len(m) - 1)), m[Len(m)])

TopN == 5

FirstN(s, n) == SubSeq(s, 1, IF Len(s) < n THEN Len(s) ELSE n)

\* The total recomputed from the five largest categories.
total_sales_of_top(rs) ==
    LET m == cat_map(rs)
        top == FirstN(SortedBySalesDesc([i \in 1..Len(m) |->
                   [category |-> m[i].key, sales |-> m[i].value]]), 5)
    IN SumSeq([i \in 1..Len(top) |-> top[i].sales])

total_sales(rs) == SumSeq([i \in 1..Len(rs) |-> rs[i].sales])

\* The orders counted once per row they appear in.
orders_count_per_row(rs) == SumSeq([i \in 1..Len(rs) |-> Cardinality(rs[i].orders)])

orders_count(rs) == Cardinality(UNION {rs[i].orders : i \in 1..Len(rs)})

\* The total divided by the number of rows.
avg_order_value_per_row(rs) ==
    IF Len(rs) # 0 THEN RoundDiv(total_sales(rs), Len(rs)) ELSE 0

avg_order_value(rs) ==
    IF orders_count(rs) # 0 THEN RoundDiv(total_sales(rs), orders_count(rs)) ELSE 0

top_categories(rs) ==
    LET m == cat_map(rs)
    IN FirstN(SortedBySalesDesc([i \in 1..Len(m) |->
                  [category |-> m[i].key, sales |-> round2(m[i].value)]]), TopN)

trend(rs) ==
    LET m == SortedItems(trend_map(rs))
    IN [i \in 1..Len(m) |-> [date |-> m[i].key, sales |-> round2(m[i].value)]]

\* The AnalyticsResponse built from the rows.
Summary(rs) ==
    [total_sales |-> round2(total_sales(rs)),
     orders_count |-> orders_count(rs),
     avg_order_value |-> avg_order_value(rs),
     top_categories |-> top_categories(rs),
     trend |-> trend(rs)]

\* The fallback dummy analytics.
dummy_trend ==
    <<[date |-> IsoDate([y |-> 2025, m |-> 11, d |-> 1]), sales |-> 1200000],
      [date |-> IsoDate([y |-> 2025, m |-> 11, d |-> 2]), sales |-> 1800000],
      [date |-> IsoDate([y |-> 2025, m |-> 11, d |-> 3]), sales |-> 900000],
      [date |-> IsoDate([y |-> 2025, m |-> 11, d |-> 4]), sales |-> 1500000],
      [date |-> IsoDate([y |-> 2025, m |-> 11, d |-> 5]), sales |-> 2100000]>>

Fallback ==
    LET total == SumSeq([i \in 1..Len(dummy_trend) |-> dummy_trend[i].sales])
    IN [total_sales |-> total,
        orders_count |-> 42,
        avg_order_value |-> RoundDiv(total, 42),
        top_categories |-> <<[category |-> "subscriptions", sales |-> 3200000],
                             [category |-> "hardware", sales |-> 2300000]>>,
        trend |-> dummy_trend]

(***************************************************************************)
(* The handlers.  store is the "order" collection; db_order is the part of *)
(* the database's emission order of groups that is fixed for the whole     *)
(* behaviour (empty: every call may see any order).  call records the      *)
(* parameters of the last analytics request and whether                    *)
(* db["order"].aggregate raised during it; rows is what the pipeline       *)
(* returned to it; branch is the return statement the last handler left    *)
(* through; resp is the last response.                                     *)
(***************************************************************************)
NoCall == [start_date |-> None, end_date |-> None, category |-> None, aggregate_raises |-> FALSE]

\* analytics_overview with the parsing of the dates outside the try block.
analytics_overview_uncaught(start_date, end_date, category, aggregate_raises) ==
    LET filt == BuildFilter(start_date, end_date, category)
    IN /\ call' = [start_date |-> start_date, end_date |-> end_date,
                   category |-> category, aggregate_raises |-> aggregate_raises]
       /\ IF IsNone(filt)
          THEN /\ rows' = <<>>
               /\ branch' = "error"
               /\ resp' = [status_code |-> 500]
          ELSE IF db_available /\ ~aggregate_raises
          THEN \E rs \in Emissions(Pipeline(store, Val(filt)), db_order) :
                  /\ rows' = rs
                  /\ branch' = "pipeline"
                  /\ resp' = Summary(rs)
          ELSE /\ rows' = <<>>
               /\ branch' = "fallback"
               /\ resp' = Fallback
       /\ UNCHANGED <<db_available, store, db_order>>

\* GET /analytics/overview.  $group does not order its output: the rows come
\* in any order.
analytics_overview(start_date, end_date, category, aggregate_raises) ==
    LET filt == BuildFilter(start_date, end_date, category)
    IN /\ call' = [start_date |-> start_date, end_date |-> end_date,
                   category |-> category, aggregate_raises |-> aggregate_raises]
       /\ IF ~IsNone(filt) /\ db_available /\ ~aggregate_raises
          THEN \E rs \in Emissions(Pipeline(store, Val(filt)), db_order) :
                  /\ rows' = rs
                  /\ branch' = "pipeline"
                  /\ resp' = Summary(rs)
          ELSE /\ rows' = <<>>
               /\ branch' = "fallback"
               /\ resp' = Fallback
       /\ UNCHANGED <<db_available, store, db_order>>

\* PUT /orders/{order_id}.  order_id 0 stands for a string that is not an
\* ObjectId.
update_order(order_id, payload) ==
    /\ IF ~db_available
       THEN /\ resp' = [updated |-> FALSE]
            /\ UNCHANGED store
       ELSE IF order_id = 0
       THEN /\ resp' = [status_code |-> 400]
            /\ UNCHANGED store
       ELSE /\ resp' = [updated |-> TRUE]
            /\ store' = {IF d._id = order_id
                         THEN [_id |-> d._id, order_date |-> Order(payload).order_date,
                               items |-> Order(payload).items]
                         ELSE d : d \in store}
    /\ branch' = "update_order"
    /\ call' = NoCall
    /\ rows' = <<>>
    /\ UNCHANGED <<db_available, db_order>>

\* DELETE /orders/{order_id}.
delete_order(order_id) ==
    /\ IF ~db_available
       THEN /\ resp' = [deleted |-> FALSE]
            /\ UNCHANGED store
       ELSE IF order_id = 0
       THEN /\ resp' = [status_code |-> 400]
            /\ UNCHANGED store
       ELSE /\ resp' = [deleted |-> TRUE]
            /\ store' = {d \in store : d._id # order_id}
    /\ branch' = "delete_order"
    /\ call' = NoCall
    /\ rows' = <<>>
    /\ UNCHANGED <<db_available, db_order>>

(***************************************************************************)
(* The inputs of the model.                                                *)
(***************************************************************************)
\* The item lists of stored orders, up to the order of the items (which no
\* stage of the pipeline reads): at most n items among the given ones.
ItemLists(items, n) == Multisets(items, n)

Midnights(n) == {[day |-> d, tod |-> 0] : d \in 1..n}

DateTimes(n) == {[day |-> d, tod |-> t] : d \in 1..n, t \in {0, 1}}

\* The collections of at most MaxOrders documents with the given values, up
\* to the naming of the documents.
Stores(values) ==
    {{[_id |-> i, order_date |-> v[i].order_date, items |-> v[i].items] : i \in 1..Len(v)} :
        v \in Multisets(values, MaxOrders)}

InitWith(values) ==
    /\ db_available \in BOOLEAN
    /\ store \in (IF db_available THEN Stores(values) ELSE {{}})
    /\ db_order = <<>>
    /\ call = NoCall
    /\ rows = <<>>
    /\ branch = "init"
    /\ resp = None

\* The bodies sent to PUT /orders: the client may send a category along.
Payloads ==
    [order_date : Midnights(2),
     items : {<<[quantity |-> 1, price |-> 4, category |-> Str("A")]>>}]

IsoDay(n) == Some(IsoDate(CalendarDay(n)))

(***************************************************************************)
(* Spec: orders of up to two items, each either two units of category "A"  *)
(* or one unit of no category, dated at midnight of day 1 or day 2;        *)
(* requests with and without a category filter and a start date.           *)
(***************************************************************************)
Init ==
    InitWith([order_date : Midnights(2),
              items : ItemLists({[quantity |-> 2, price |-> 4, category |-> Str("A")],
                                 [quantity |-> 1, price |-> 4, category |-> Missing]}, 2)])

Next ==
    \/ \E s \in {None, IsoDay(2)}, c \in {None, Some(""), Some("A")} :
          analytics_overview(s, None, c, FALSE)
    \/ \E id \in 0..MaxOrders, p \in Payloads : update_order(id, p)
    \/ \E id \in 0..MaxOrders : delete_order(id)

Spec == Init /\ [][Next]_vars

(***************************************************************************)
(* SpecDates: orders of at most one item, dated at midnight or later in    *)
(* the day on days 1 to 3; requests with absent, empty, valid (day 2) and  *)
(* malformed dates, and requests during which the database raises.         *)
(***************************************************************************)
Malformed == <<"2", "0", "2", "5", "-", "1", "3", "-", "0", "1">>

DateParams == {None, Some(<<>>), IsoDay(2), Some(Malformed)}

InitDates ==
    InitWith([order_date : DateTimes(3),
              items : ItemLists({[quantity |-> 1, price |-> 4, category |-> Str("A")]}, 1)])

NextDates ==
    \/ \E s \in DateParams, e \in DateParams : analytics_overview(s, e, None, FALSE)
    \/ \E s \in DateParams : analytics_overview(s, None, None, TRUE)
    \/ \E id \in 0..MaxOrders, p \in Payloads : update_order(id, p)
    \/ \E id \in 0..MaxOrders : delete_order(id)

SpecDates == InitDates /\ [][NextDates]_vars

(***************************************************************************)
(* SpecUnknown: orders of at most one item, which carries no category, a   *)
(* null or an empty one, the category "Unknown" itself, or "A".            *)
(***************************************************************************)
InitUnknown ==
    InitWith([order_date : Midnights(2),
              items : ItemLists([quantity : {1}, price : {4},
                                 category : {Missing, Null, Str(""), Str("Unknown"), Str("A")}], 1)])

NextUnknown ==
    \/ analytics_overview(None, None, None, FALSE)
    \/ \E id \in 0..MaxOrders, p \in Payloads : update_order(id, p)
    \/ \E id \in 0..MaxOrders : delete_order(id)

SpecUnknown == InitUnknown /\ [][NextUnknown]_vars

(***************************************************************************)
(* SpecTop: up to TopMaxItems items, each in a category of its own, the    *)
(* odd ones in order 1 on day 1 and the even ones in order 2 on day 2; the *)
(* first none, one or three cost 0.008 and the others 0.004.  The database *)
(* emits the groups in an order fixed at the start, any one.               *)
(***************************************************************************)
TopCategory(i) == CASE i = 1 -> "A" [] i = 2 -> "B" [] i = 3 -> "C" [] i = 4 -> "D"
                    [] i = 5 -> "E" [] i = 6 -> "F" [] i = 7 -> "G" [] i = 8 -> "H"

TopStore(n, dear) ==
    {[_id |-> o,
      order_date |-> [day |-> o, tod |-> 0],
      items |-> LET mine == {i \in 1..n : i % 2 = o % 2}
                    nth[k \in 1..Cardinality(mine)] ==
                        CHOOSE i \in mine : Cardinality({j \in mine : j < i}) = k - 1
                IN [k \in 1..Cardinality(mine) |->
                      [quantity |-> 1, price |-> IF nth[k] <= dear THEN 8 ELSE 4,
                       category |-> Str(TopCategory(nth[k]))]]] :
        o \in 1..2}

InitTop ==
    /\ db_available = TRUE
    /\ \E n \in 0..TopMaxItems : \E dear \in {0, 1, 3} \cap 0..n :
          /\ store = TopStore(n, dear)
          /\ db_order \in Orderings({g._id : g \in Pipeline(store, [gte |-> None, lte |-> None, category |-> None])})
    /\ call = NoCall
    /\ rows = <<>>
    /\ branch = "init"
    /\ resp = None

NextTop ==
    \E c \in {None, Some("A")} : analytics_overview(None, None, c, FALSE)

SpecTop == InitTop /\ [][NextTop]_vars

(***************************************************************************)
(* What the claims speak of, read off the stored orders and the request    *)
(* without going through the pipeline.                                     *)
(***************************************************************************)
Answered == branch = "pipeline"

GivenDate(o) == Len(o) = 1 /\ o[1] # <<>>

GivenCategory(o) == Len(o) = 1 /\ o[1] # ""

WellFormedDate(s) == \E n \in 1..31 : IsoDate(CalendarDay(n)) = s

DayOf(s) == CHOOSE n \in 1..31 : IsoDate(CalendarDay(n)) = s

\* The order is dated on or after the calendar day start_date, and on or
\* before the calendar day end_date, at any time of the day.
InDateRange(d) ==
    /\ GivenDate(call.start_date) => d.order_date.day >= DayOf(Val(call.start_date))
    /\ GivenDate(call.end_date) => d.order_date.day <= DayOf(Val(call.end_date))

\* The order has an item of the category asked for.
HasCategory(d) ==
    GivenCategory(call.category) =>
        \E k \in 1..Len(d.items) : d.items[k].category = Str(Val(call.category))

\* The orders whose items the aggregation sums: those the $match stage lets
\* through.
Selected == {d \in store : InDateRange(d) /\ HasCategory(d)}

\* A line is an item of a stored order: <<order, index>>.
LinesOf(docs) == UNION {{<<d, k>> : k \in 1..Len(d.items)} : d \in docs}

LineTotal(l) == l[1].items[l[2]].quantity * l[1].items[l[2]].price

LineCategory(l) == l[1].items[l[2]].category

LineDay(l) == l[1].order_date.day

RECURSIVE SumLines(_)
SumLines(L) ==
    IF L = {} THEN 0
    ELSE LET l == CHOOSE x \in L : TRUE IN LineTotal(l) + SumLines(L \ {l})

Uncategorised(c) == c \in {Missing, Null, Str("")}

ReportedName(c) == IF Uncategorised(c) THEN "Unknown" ELSE c.s

Entries(s) == {s[i] : i \in 1..Len(s)}

RECURSIVE SumSales(_)
SumSales(s) == IF Len(s) = 0 THEN 0 ELSE Head(s).sales + SumSales(Tail(s))

Abs(x) == IF x < 0 THEN -x ELSE x

(***************************************************************************)
(* C1.  With a category filter, only the items of that category count: the *)
(* total, every top_categories entry, every trend entry and orders_count   *)
(* are those of the matching items alone.                                  *)
(***************************************************************************)
C1_FilteredLines ==
    {l \in LinesOf({d \in store : InDateRange(d)}) : LineCategory(l) = Str(Val(call.category))}

C1_OnlyMatchingItemsCount ==
    (Answered /\ GivenCategory(call.category)) =>
        /\ resp.total_sales = round2(SumLines(C1_FilteredLines))
        /\ \A e \in Entries(resp.top_categories) :
              /\ e.category = Val(call.category)
              /\ e.sales = round2(SumLines(C1_FilteredLines))
        /\ \A e \in Entries(resp.trend) :
              e.sales = round2(SumLines({l \in C1_FilteredLines : LineDay(l) = DayOf(e.date)}))
        /\ resp.orders_count = Cardinality({l[1] : l \in C1_FilteredLines})

(***************************************************************************)
(* C4.  orders_count is the number of distinct orders that contribute a    *)
(* row: the selected orders with at least one item, each counted once.     *)
(***************************************************************************)
C4_OrdersCountDistinct ==
    Answered => resp.orders_count = Cardinality({d \in Selected : Len(d.items) > 0})

C4_Witness ==
    /\ Answered
    /\ resp.orders_count = 2
    /\ Len(rows) = 3
    /\ \E d \in Selected : Len(d.items) = 2 /\ d.items[1].category = d.items[2].category
    /\ \E d \in Selected : Len(d.items) = 2 /\ d.items[1].category # d.items[2].category

(***************************************************************************)
(* C6.  When no stored order passes the date and category filters, the     *)
(* summary computed is all zeros and empty lists.                          *)
(***************************************************************************)
C6_EmptySummary ==
    (Answered /\ Selected = {}) =>
        resp = [total_sales |-> 0, orders_count |-> 0, avg_order_value |-> 0,
                top_categories |-> <<>>, trend |-> <<>>]

C6_Witness ==
    /\ Answered
    /\ Selected = {}
    /\ \E d \in store : Len(d.items) > 0 /\ InDateRange(d) /\ ~HasCategory(d)
    /\ resp.total_sales = 0
    /\ resp.trend = <<>>

(***************************************************************************)
(* C7.  The trend has one entry per calendar day on which an aggregated    *)
(* item falls, its sales the sum over all the items of that day whatever   *)
(* their category, in strictly ascending order of the days.                *)
(***************************************************************************)
C7_TrendPerDay ==
    Answered =>
        LET lines == LinesOf(Selected)
            days == {LineDay(l) : l \in lines}
        IN /\ Len(resp.trend) = Cardinality(days)
           /\ \A n \in days : \E i \in 1..Len(resp.trend) :
                 /\ resp.trend[i].date = IsoDate(CalendarDay(n))
                 /\ resp.trend[i].sales = round2(SumLines({l \in lines : LineDay(l) = n}))
           /\ \A i \in 1..Len(resp.trend), j \in 1..Len(resp.trend) :
                 i < j => DayOf(resp.trend[i].date) < DayOf(resp.trend[j].date)

C7_Witness ==
    /\ Answered
    /\ Len(resp.trend) = 2
    /\ Len(rows) = 4
    /\ rows[1]._id.day = resp.trend[2].date

(***************************************************************************)
(* C8.  avg_order_value is the total of the aggregated items divided by    *)
(* orders_count and rounded to 2 decimals, and 0 when orders_count is 0.   *)
(***************************************************************************)
C8_Average ==
    Answered =>
        IF resp.orders_count > 0
        THEN resp.avg_order_value = RoundDiv(SumLines(LinesOf(Selected)), resp.orders_count)
        ELSE resp.avg_order_value = 0

C8_Witness ==
    /\ Answered
    /\ resp.orders_count = 2
    /\ SumLines(LinesOf(Selected)) = 12
    /\ resp.avg_order_value = 10

(***************************************************************************)
(* C2.  An order dated on the calendar day start_date or end_date, at any  *)
(* time of that day, is aggregated; one dated a day before start_date or a *)
(* day after end_date is not; an absent bound excludes nothing.            *)
(***************************************************************************)
Aggregated(d) == \E i \in 1..Len(rows) : d._id \in rows[i].orders

C2_DateBoundsInclusive ==
    Answered =>
        /\ \A d \in store : Len(d.items) > 0 => (Aggregated(d) <=> InDateRange(d))
        /\ resp.orders_count = Cardinality({d \in store : Len(d.items) > 0 /\ InDateRange(d)})

(***************************************************************************)
(* C9.  analytics_overview never raises: it leaves through the fallback    *)
(* exactly when the database is unavailable, a date is malformed or the    *)
(* aggregation raises, and the fallback response is the fixed placeholder  *)
(* whatever the request.                                                   *)
(***************************************************************************)
C9_Failure ==
    \/ ~db_available
    \/ call.aggregate_raises
    \/ GivenDate(call.start_date) /\ ~WellFormedDate(Val(call.start_date))
    \/ GivenDate(call.end_date) /\ ~WellFormedDate(Val(call.end_date))

C9_Placeholder ==
    [total_sales |-> 7500000,
     orders_count |-> 42,
     avg_order_value |-> 178570,
     top_categories |-> <<[category |-> "subscriptions", sales |-> 3200000],
                          [category |-> "hardware", sales |-> 2300000]>>,
     trend |-> <<[date |-> <<"2", "0", "2", "5", "-", "1", "1", "-", "0", "1">>, sales |-> 1200000],
                 [date |-> <<"2", "0", "2", "5", "-", "1", "1", "-", "0", "2">>, sales |-> 1800000],
                 [date |-> <<"2", "0", "2", "5", "-", "1", "1", "-", "0", "3">>, sales |-> 900000],
                 [date |-> <<"2", "0", "2", "5", "-", "1", "1", "-", "0", "4">>, sales |-> 1500000],
                 [date |-> <<"2", "0", "2", "5", "-", "1", "1", "-", "0", "5">>, sales |-> 2100000]>>]

C9_PlaceholderOnFailureOnly ==
    branch \notin {"init", "update_order", "delete_order"} =>
        /\ branch \in {"pipeline", "fallback"}
        /\ branch = "fallback" <=> C9_Failure
        /\ branch = "fallback" => resp = C9_Placeholder

C9_Witness ==
    /\ branch = "fallback"
    /\ resp = C9_Placeholder
    /\ db_available
    /\ store # {}
    /\ ~call.aggregate_raises
    /\ GivenDate(call.end_date) /\ ~WellFormedDate(Val(call.end_date))
    /\ GivenDate(call.start_date) /\ WellFormedDate(Val(call.start_date))

(***************************************************************************)
(* The per-category and per-day breakdowns of the aggregated items.        *)
(***************************************************************************)
RECURSIVE SumOver(_, _)
SumOver(f, S) ==
    IF S = {} THEN 0
    ELSE LET x == CHOOSE y \in S : TRUE IN f[x] + SumOver(f, S \ {x})

SumFun(f) == SumOver(f, DOMAIN f)

Names == {ReportedName(LineCategory(l)) : l \in LinesOf(Selected)}

ByCategory ==
    [c \in Names |-> SumLines({l \in LinesOf(Selected) : ReportedName(LineCategory(l)) = c})]

ByDay ==
    [n \in {LineDay(l) : l \in LinesOf(Selected)} |->
        SumLines({l \in LinesOf(Selected) : LineDay(l) = n})]

(***************************************************************************)
(* C3.  total_sales is the sum of the full per-category breakdown and the  *)
(* sum of the per-day breakdown, rounded to 2 decimals; the sums of the    *)
(* entries, each rounded, differ from it by at most half a cent per entry  *)
(* and half a cent for the total; the cut to five categories changes none  *)
(* of this.                                                                *)
(***************************************************************************)
C3_TotalsConsistent ==
    Answered =>
        /\ resp.total_sales = round2(SumFun(ByCategory))
        /\ resp.total_sales = round2(SumFun(ByDay))
        /\ Abs(resp.total_sales - SumFun([c \in Names |-> round2(ByCategory[c])]))
              <= 5 * (Cardinality(Names) + 1)
        /\ Abs(resp.total_sales - SumSales(resp.trend)) <= 5 * (Len(resp.trend) + 1)
        /\ Cardinality(Names) <= 5 =>
              Abs(resp.total_sales - SumSales(resp.top_categories)) <= 5 * (Cardinality(Names) + 1)

C3_Witness ==
    /\ Answered
    /\ Cardinality(Names) > 5
    /\ Len(resp.top_categories) = 5
    /\ Len(resp.trend) = 2
    /\ resp.total_sales = 40
    /\ SumSales(resp.top_categories) = 30

(***************************************************************************)
(* C5.  top_categories holds the five categories of largest sales, or all  *)
(* of them when there are five or fewer, each once, in descending order of *)
(* sales; categories of equal sales stay in the order in which the rows    *)
(* first brought them (and it is the later ones that are left out).        *)
(***************************************************************************)
FirstRow(c) ==
    CHOOSE i \in 1..Len(rows) :
        /\ ReportedName(rows[i]._id.category) = c
        /\ \A j \in 1..(i - 1) : ReportedName(rows[j]._id.category) # c

C5_TopCategories ==
    Answered =>
        LET top == resp.top_categories
            names == Names
            n == Cardinality(names)
            shown == {top[i].category : i \in 1..Len(top)}
        IN /\ Len(top) = (IF n > 5 THEN 5 ELSE n)
           /\ \A i \in 1..Len(top) :
                 /\ top[i].category \in names
                 /\ top[i].sales = round2(ByCategory[top[i].category])
           /\ \A i \in 1..Len(top), j \in 1..Len(top) :
                 i < j =>
                    /\ top[i].category # top[j].category
                    /\ top[i].sales >= top[j].sales
                    /\ top[i].sales = top[j].sales =>
                          FirstRow(top[i].category) < FirstRow(top[j].category)
           /\ \A c \in names \ shown :
                 LET sales == round2(ByCategory[c])
                 IN /\ sales <= top[Len(top)].sales
                    /\ \A i \in 1..Len(top) :
                          top[i].sales = sales => FirstRow(top[i].category) < FirstRow(c)
           /\ n <= 5 => shown = names

C5_Witness ==
    /\ Answered
    /\ Cardinality(Names) = 6
    /\ Len(resp.top_categories) = 5
    /\ resp.top_categories[1].sales > resp.top_categories[2].sales
    /\ resp.top_categories[2].sales = resp.top_categories[5].sales
    /\ \E c \in Names : /\ \A i \in 1..5 : resp.top_categories[i].category # c
                        /\ round2(ByCategory[c]) = resp.top_categories[5].sales
    /\ resp.top_categories[2].category = "F"
    /\ resp.top_categories[3].category = "B"

(***************************************************************************)
(* C10.  The items whose category is missing, null or empty are reported   *)
(* under the one name "Unknown", whose sales is their combined quantity x  *)
(* price, and they count in total_sales, orders_count and trend.           *)
(***************************************************************************)
C10_UncategorisedLines == {l \in LinesOf(Selected) : Uncategorised(LineCategory(l))}

C10_CountedEverywhere ==
    /\ resp.total_sales = round2(SumLines(LinesOf(Selected)))
    /\ resp.orders_count = Cardinality({l[1] : l \in LinesOf(Selected)})
    /\ \A l \in LinesOf(Selected) : \E e \in Entries(resp.trend) :
          /\ e.date = IsoDate(CalendarDay(LineDay(l)))
          /\ e.sales = round2(ByDay[LineDay(l)])

C10_UnknownIsUncategorisedOnly ==
    (Answered /\ C10_UncategorisedLines # {}) =>
        /\ Cardinality({i \in 1..Len(resp.top_categories) :
                           resp.top_categories[i].category = "Unknown"}) = 1
        /\ \A e \in Entries(resp.top_categories) :
              /\ e.category # ""
              /\ e.category = "Unknown" => e.sales = round2(SumLines(C10_UncategorisedLines))
        /\ C10_CountedEverywhere

\* As amended: the "Unknown" entry also takes in the items whose category is
\* the string "Unknown".
C10_UnknownLines == {l \in LinesOf(Selected) : ReportedName(LineCategory(l)) = "Unknown"}

C10_UnknownEntry ==
    Answered =>
        /\ Cardinality({i \in 1..Len(resp.top_categories) :
                           resp.top_categories[i].category = "Unknown"})
              = (IF C10_UnknownLines # {} THEN 1 ELSE 0)
        /\ \A e \in Entries(resp.top_categories) :
              /\ e.category # ""
              /\ e.category = "Unknown" => e.sales = round2(SumLines(C10_UnknownLines))
        /\ C10_CountedEverywhere

C10_Witness ==
    /\ Answered
    /\ \E l1 \in C10_UncategorisedLines, l2 \in C10_UncategorisedLines :
          /\ LineDay(l1) # LineDay(l2)
          /\ LineCategory(l1) = Null
          /\ LineCategory(l2) = Str("")
    /\ Len(rows) = 2
    /\ Len(resp.trend) = 2
    /\ resp.orders_count = 2
    /\ resp.top_categories = <<[category |-> "Unknown", sales |-> 10]>>

====
